---------------------------- MODULE Spec2Model ----------------------------
(***************************************************************************)
(* A model of the analytics pipeline of scripts/expert_analytics.py:       *)
(* name normalisation, the paginated task fetch and the cache around it,   *)
(* the flattening of a raw record, the cycle-time enrichment, the parsing  *)
(* and loading of the time logs and the AHT aggregation.                    *)
(*                                                                         *)
(* Conventions.  A Python str is a sequence of characters, each character  *)
(* a one-element name ("a", " ", "oacute" for o-acute).  A str-or-None     *)
(* value that is None is NoneStr.  An optional number (NaT, NaN, None) is  *)
(* a set: {} for no value, {v} for the value v.  Opaque tokens (the API    *)
(* key, the base id, the pagination cursor) are TLA+ strings, with "None"  *)
(* for None.  Timestamps and durations are counted in whole hours.         *)
(***************************************************************************)
EXTENDS Integers, Sequences, FiniteSets, TLC

VARIABLES
    \* the position of the run in the code
    pc,
    \* fetch_airtable_tasks: arguments, locals, the HTTP exchange so far
    \* (one entry per requests.get), the st.error calls, the return value
    api_key, base_id, offset, all_records, requests, responses,
    st_errors, fetch_result,
    \* the record loop of fetch_airtable_tasks: one raw record and its row
    record, parsed,
    \* calculate_cycle_times: the table passed in, the table returned
    tasks_df, cycle_df,
    \* the dashboard run (which takes its task table from tasks_df): the
    \* aggregated time logs, the enriched task table, the overall metrics,
    \* the per-expert metrics
    time_logs, filtered_tasks, overall, expert_metrics,
    \* normalize_expert_name: an argument, its result, the result's result
    name_in, name_once, name_twice,
    \* parse_time_to_hours: the argument and the value returned
    time_str, parsed_hours,
    \* load_time_logs: the file behind each path of csv_paths, the position
    \* of the for loop, the frames kept so far, the st.warning calls (the
    \* value returned is time_logs)
    csv_paths, path_idx, all_data, st_warnings,
    \* st.cache_data around fetch_airtable_tasks: the entries held, the
    \* clock in seconds, the records the API serves now, the calls made
    cache, now, remote, calls,
    \* the three durations of calculate_cycle_times at the resolution of
    \* the floats: one task's timestamps in seconds, its three durations
    stamps, durations,
    \* metrics_dashboard.py: st.session_state['data'] now and when the
    \* rerun began, the widgets of the rerun (button, checkbox, endpoint,
    \* date range), what fetch_metrics_data returned in it, its
    \* st.cache_data entries, the clock in seconds, the number of reruns so
    \* far
    session_data, data_before, fetch_button, use_mock, api_endpoint,
    date_range, fetched, metrics_cache, dash_time, reruns

fetchVars == <<api_key, base_id, offset, all_records, requests,
               responses, st_errors, fetch_result>>
parseVars == <<record, parsed>>
cycleVars == <<tasks_df, cycle_df>>
metricVars == <<time_logs, filtered_tasks, overall, expert_metrics>>
normVars == <<name_in, name_once, name_twice>>
timeVars == <<time_str, parsed_hours>>
logVars == <<csv_paths, path_idx, all_data, st_warnings>>
cacheVars == <<cache, now, remote, calls>>
durVars == <<stamps, durations>>
dashVars == <<session_data, data_before, fetch_button, use_mock,
              api_endpoint, date_range, fetched, metrics_cache, dash_time,
              reruns>>
vars == <<pc, fetchVars, parseVars, cycleVars, metricVars, normVars,
          timeVars, logVars, cacheVars, durVars, dashVars>>

---------------------------------------------------------------------------
(* Bounds of the model. *)

\* requests one fetch may issue (the remote ends the table by then)
MaxPages == 3
\* records the remote puts on one page
MaxPageRecs == 1
\* length of the arbitrary strings given to normalize_expert_name
MaxLen == 3
\* entries of one record's reviews__reviewer_users
MaxReviewers == 4
\* rows of a task table whose authors and claim times vary
MaxTasks == 3
\* rows of a task table whose three lifecycle timestamps vary
MaxTimedTasks == 2
\* rows of the task table of a dashboard run
MaxMetricTasks == 2

---------------------------------------------------------------------------
(* Python str. *)

NoneStr == <<"None">>

\* float('nan'), which pandas holds in a text column for an empty cell
NaNStr == <<"nan">>

\* the outcome of a call that raises AttributeError
AttributeError == <<"AttributeError">>

UpperChars == <<"A", "B", "J", "K", "M", "P", "T", "V", "Oacute">>
LowerChars == <<"a", "b", "j", "k", "m", "p", "t", "v", "oacute">>
Whitespace == {" ", "\t"}

\* str.lower(), one character
LowerChar(c) ==
    IF \E i \in DOMAIN UpperChars : UpperChars[i] = c
    THEN LowerChars[CHOOSE i \in DOMAIN UpperChars : UpperChars[i] = c]
    ELSE c

\* str.upper(), one character (only used to build inputs)
UpperChar(c) ==
    IF \E i \in DOMAIN LowerChars : LowerChars[i] = c
    THEN UpperChars[CHOOSE i \in DOMAIN LowerChars : LowerChars[i] = c]
    ELSE c

\* str.lower()
Lower(s) == [i \in DOMAIN s |-> LowerChar(s[i])]

Upper(s) == [i \in DOMAIN s |-> UpperChar(s[i])]

RECURSIVE LStrip(_)
LStrip(s) ==
    IF s # <<>> /\ Head(s) \in Whitespace THEN LStrip(Tail(s)) ELSE s

RECURSIVE RStrip(_)
RStrip(s) ==
    IF s # <<>> /\ s[Len(s)] \in Whitespace
    THEN RStrip(SubSeq(s, 1, Len(s) - 1))
    ELSE s

\* str.strip()
Strip(s) == RStrip(LStrip(s))

---------------------------------------------------------------------------
(* EXPERT_ALIASES and normalize_expert_name. *)

\* the dict in insertion order, each entry <<alias, canonical name>>
EXPERT_ALIASES ==
    << << <<"T","o","t","r","a","k","o","o","l"," ","K","h","o","n","g","s","a","p">>,
          <<"T","a"," ","K","h","o","n","g","s","a","p">> >>,
       << <<"t","o","t","r","a","k","o","o","l"," ","k","h","o","n","g","s","a","p">>,
          <<"T","a"," ","K","h","o","n","g","s","a","p">> >>,
       << <<"J","oacute","z","s","e","f"," ","V","a","s","s">>,
          <<"J","o","z","s","e","f"," ","V","a","s","s">> >>,
       << <<"j","o","z","s","e","f"," ","v","a","s","s">>,
          <<"J","o","z","s","e","f"," ","V","a","s","s">> >>,
       << <<"j","oacute","z","s","e","f"," ","v","a","s","s">>,
          <<"J","o","z","s","e","f"," ","V","a","s","s">> >>,
       << <<"B","e","h","z","a","d"," ","A","n","s","a","r","i","n","e","j","a","d"," ","-"," ","P","h","y","s","i","c","s">>,
          <<"B","e","h","z","a","d">> >>,
       << <<"B","e","h","z","a","d"," ","A","n","s","a","r","i","n","e","j","a","d">>,
          <<"B","e","h","z","a","d">> >>,
       << <<"b","e","h","z","a","d"," ","a","n","s","a","r","i","n","e","j","a","d"," ","-"," ","p","h","y","s","i","c","s">>,
          <<"B","e","h","z","a","d">> >>,
       << <<"b","e","h","z","a","d"," ","a","n","s","a","r","i","n","e","j","a","d">>,
          <<"B","e","h","z","a","d">> >> >>

AliasKeys == {EXPERT_ALIASES[i][1] : i \in DOMAIN EXPERT_ALIASES}
CanonicalNames == {EXPERT_ALIASES[i][2] : i \in DOMAIN EXPERT_ALIASES}

\* EXPERT_ALIASES[name], for a name that is a key
AliasLookup(name) ==
    EXPERT_ALIASES[CHOOSE i \in DOMAIN EXPERT_ALIASES :
                       EXPERT_ALIASES[i][1] = name][2]

\* alias.lower(), for each entry
LoweredAliases ==
    [i \in DOMAIN EXPERT_ALIASES |-> Lower(EXPERT_ALIASES[i][1])]

\* the for loop over EXPERT_ALIASES.items(): the entries whose lower-cased
\* alias equals name_lower
LowerMatches(name_lower) ==
    {i \in DOMAIN EXPERT_ALIASES : LoweredAliases[i] = name_lower}

\* the same loop with name.lower() left unstripped
NormalizeFallbackNoStrip(name) ==
    LET hits == LowerMatches(Lower(name))
    IN  IF hits # {}
        THEN EXPERT_ALIASES[CHOOSE i \in hits : \A j \in hits : i <= j][2]
        ELSE Strip(name)

\* what the exact lookup misses: the case-insensitive loop, then the strip
NormalizeFallback(name) ==
    LET name_lower == Strip(Lower(name))
        hits == LowerMatches(name_lower)
    IN  IF hits # {}
        THEN EXPERT_ALIASES[CHOOSE i \in hits : \A j \in hits : i <= j][2]
        ELSE Strip(name)

\* 'not name' is False for a NaN and a NaN is no key of the dict, so the
\* call goes on to name.lower(), which a float does not have
normalize_expert_name(name) ==
    IF name = NoneStr \/ name = <<>> THEN name
    ELSE IF name \in AliasKeys THEN AliasLookup(name)
    ELSE IF name = NaNStr THEN AttributeError
    ELSE NormalizeFallback(name)

---------------------------------------------------------------------------
(* A raw record of the API and its row of the task table                   *)
(* (fetch_airtable_tasks, the loop over all_records).                      *)
(*                                                                         *)
(* A user entry of a relation list is [kind |-> "dict", name, email] or,   *)
(* for an entry that is no dict, [kind |-> "str", value].  A raw timestamp *)
(* is [kind |-> "iso", t] for a parseable string, [kind |-> "bad"] for an  *)
(* unparseable one, [kind |-> "none"] for an absent one.                   *)

DictUser(n, e) == [kind |-> "dict", name |-> n, email |-> e]
StrUser(v) == [kind |-> "str", value |-> v]

Iso(t) == [kind |-> "iso", t |-> t]
BadTime == [kind |-> "bad", t |-> 0]
NoTime == [kind |-> "none", t |-> 0]

\* pd.to_datetime(errors='coerce', utc=True), one cell
ToDatetime(x) == IF x.kind = "iso" THEN {x.t} ELSE {}

\* expert_name and expert_email from fields["expert__user"]
ExpertOf(expert_user) ==
    IF expert_user # <<>>
    THEN IF expert_user[1].kind = "dict"
         THEN [name |-> normalize_expert_name(expert_user[1].name),
               email |-> Lower(expert_user[1].email)]
         ELSE [name |-> normalize_expert_name(expert_user[1].value),
               email |-> <<>>]
    ELSE [name |-> <<>>, email |-> <<>>]

\* reviewer_name from fields["expert_reviewer__user"]
ReviewerOf(reviewer_user) ==
    IF reviewer_user # <<>>
    THEN IF reviewer_user[1].kind = "dict"
         THEN normalize_expert_name(reviewer_user[1].name)
         ELSE normalize_expert_name(reviewer_user[1].value)
    ELSE <<>>

\* the same condition without the comparison to the expert's email
KeepReviewerEmailAny(email, expert_email) == email # <<>>

\* if email and email != expert_email
KeepReviewerEmail(email, expert_email) ==
    email # <<>> /\ email # expert_email

\* the loop over reviews__reviewer_users that fills unique_reviewer_emails
RECURSIVE UniqueReviewerEmails(_, _, _)
UniqueReviewerEmails(reviewer_users, expert_email, acc) ==
    IF reviewer_users = <<>> THEN acc
    ELSE LET reviewer == Head(reviewer_users)
             email == IF reviewer.kind = "dict"
                      THEN Lower(reviewer.email) ELSE <<>>
         IN  UniqueReviewerEmails(
                 Tail(reviewer_users), expert_email,
                 IF reviewer.kind = "dict"
                    /\ KeepReviewerEmail(email, expert_email)
                 THEN acc \cup {email} ELSE acc)

\* the dict appended to parsed, its date columns already converted
ParseRecord(r) ==
    LET expert == ExpertOf(r.expert__user)
        emails == UniqueReviewerEmails(r.reviews__reviewer_users,
                                       expert.email, {})
    IN  [record_id |-> r.id,
         task_id |-> r.task_id,
         title |-> r.title,
         task_status |-> r.task_status,
         expert_name |-> expert.name,
         expert_email |-> expert.email,
         reviewer_name |-> ReviewerOf(r.expert_reviewer__user),
         reviewer_emails |-> emails,
         time_claimed |-> ToDatetime(r.time_claimed),
         time_in_progress |-> ToDatetime(r.time_in_progress),
         time_ready_for_review |-> ToDatetime(r.time_ready_for_review),
         time_first_ready_for_review |->
             ToDatetime(r.time_first_ready_for_review),
         time_merged |-> ToDatetime(r.time_merged),
         reviews_count |-> r.reviews__count,
         unique_reviewers |-> Cardinality(emails),
         reviews_approved_count |-> r.reviews__approved_count,
         reviews_sent_back_count |-> r.reviews__sent_back_count]

\* pd.DataFrame(parsed): one row per record, in the order of all_records
BuildDF(records) == [i \in DOMAIN records |-> ParseRecord(records[i])]

\* a raw record with the given relations and timestamps
RawRecord(id, status, expert_user, reviewer_user, reviewer_users, claimed, ready, merged) ==
    [id |-> id, task_id |-> id, title |-> <<"t">>, task_status |-> status,
     expert__user |-> expert_user,
     expert_reviewer__user |-> reviewer_user,
     reviews__reviewer_users |-> reviewer_users,
     time_claimed |-> claimed, time_in_progress |-> claimed,
     time_ready_for_review |-> ready,
     time_first_ready_for_review |-> ready,
     time_merged |-> merged,
     reviews__count |-> Len(reviewer_users),
     reviews__approved_count |-> 0, reviews__sent_back_count |-> 0]

---------------------------------------------------------------------------
(* The states the variables of an operation hold while another runs. *)

FetchIdle ==
    /\ api_key = "None" /\ base_id = "None" /\ offset = "None"
    /\ all_records = <<>> /\ requests = <<>> /\ responses = <<>>
    /\ st_errors = 0 /\ fetch_result = <<>>

ParseIdle == record = <<>> /\ parsed = <<>>

CycleIdle == tasks_df = <<>> /\ cycle_df = <<>>

MetricIdle ==
    /\ time_logs = <<>> /\ filtered_tasks = <<>>
    /\ overall = <<>> /\ expert_metrics = <<>>

NormIdle == name_in = NoneStr /\ name_once = NoneStr /\ name_twice = NoneStr

TimeIdle == time_str = NoneStr /\ parsed_hours = 0

LogIdle ==
    /\ csv_paths = <<>> /\ path_idx = 0
    /\ all_data = <<>> /\ st_warnings = <<>>

CacheIdle == cache = {} /\ now = 0 /\ remote = <<>> /\ calls = <<>>

DurIdle == stamps = <<>> /\ durations = <<>>

DashIdle ==
    /\ session_data = "absent" /\ data_before = "absent"
    /\ fetch_button = FALSE /\ use_mock = TRUE /\ api_endpoint = ""
    /\ date_range = "30 days"
    /\ fetched = "not called" /\ metrics_cache = {}
    /\ dash_time = 0 /\ reruns = 0

---------------------------------------------------------------------------
(* fetch_airtable_tasks: the pagination loop and the return.               *)

Falsy == {"None", ""}
Cursors == {"None", "", "c1", "c2"}

EmptyDF == <<>>

NameA == <<"A","n","n">>
NameB == <<"B","o","b">>
EmailA == <<"a">>
EmailB == <<"b">>
EmailM == <<"m">>

\* the records the remote serves in the pagination model
SampleRecords ==
    {RawRecord(1, "Merged", <<DictUser(NameA, <<"A">>)>>,
               <<DictUser(NameB, EmailB)>>,
               <<DictUser(NameB, EmailB), DictUser(NameA, EmailA)>>,
               Iso(0), Iso(10), Iso(30)),
     RawRecord(2, "In Progress", <<>>, <<>>, <<>>, Iso(5), NoTime, BadTime)}

RECURSIVE SeqsUpTo(_, _)
SeqsUpTo(S, n) ==
    IF n = 0 THEN {<<>>}
    ELSE LET shorter == SeqsUpTo(S, n - 1)
         IN  shorter \cup {Append(q, x) : q \in shorter, x \in S}

Pages == SeqsUpTo(SampleRecords, MaxPageRecs)

\* if not api_key and not base_id
MissingCredentialsBoth(key, base) == key \in Falsy /\ base \in Falsy

\* if not api_key or not base_id
MissingCredentials(key, base) == key \in Falsy \/ base \in Falsy

\* params without the cursor
RequestParamsFirstPage(off) == [pageSize |-> 100, offset |-> "None"]

\* params = {"pageSize": 100}, plus "offset" when offset is truthy
\* (offset |-> "None": the request carries no offset parameter)
RequestParams(off) ==
    [pageSize |-> 100, offset |-> IF off \notin Falsy THEN off ELSE "None"]

\* an except branch that starts over
OnRequestExceptionReset(records) == <<>>

\* except RequestException: st.error(...); break -- all_records is kept
OnRequestException(records) == records

FetchInit ==
    /\ pc = "call"
    /\ api_key \in {"None", "", "pat"}
    /\ base_id \in {"None", "", "app"}
    /\ offset = "None" /\ all_records = <<>>
    /\ requests = <<>> /\ responses = <<>>
    /\ st_errors = 0 /\ fetch_result = <<>>
    /\ ParseIdle /\ CycleIdle /\ MetricIdle /\ NormIdle
    /\ TimeIdle /\ LogIdle /\ CacheIdle
    /\ DurIdle /\ DashIdle

\* the call, up to the first iteration of the loop
FetchCall ==
    /\ pc = "call"
    /\ IF MissingCredentials(api_key, base_id)
       THEN /\ fetch_result' = <<EmptyDF, <<>>>>
            /\ pc' = "done"
       ELSE /\ fetch_result' = fetch_result
            /\ pc' = "loop"
    /\ all_records' = <<>>
    /\ offset' = "None"
    /\ UNCHANGED <<timeVars, logVars, cacheVars>>
    /\ UNCHANGED <<durVars, dashVars>>
    /\ UNCHANGED <<api_key, base_id, requests, responses, st_errors,
                   parseVars, cycleVars, metricVars, normVars>>

\* one iteration whose request succeeds: the remote answers with a page
\* and a cursor (or none)
FetchPageOk(page, cursor) ==
    /\ pc = "loop"
    /\ cursor \notin Falsy => Len(requests) + 1 < MaxPages
    /\ requests' = Append(requests, RequestParams(offset))
    /\ responses' = Append(responses,
                           [ok |-> TRUE, records |-> page, offset |-> cursor])
    /\ all_records' = all_records \o page
    /\ offset' = cursor
    /\ pc' = IF cursor \in Falsy THEN "parse" ELSE "loop"
    /\ UNCHANGED <<timeVars, logVars, cacheVars>>
    /\ UNCHANGED <<durVars, dashVars>>
    /\ UNCHANGED <<api_key, base_id, st_errors, fetch_result,
                   parseVars, cycleVars, metricVars, normVars>>

\* one iteration whose request raises RequestException (connection error,
\* HTTP error status, timeout)
FetchPageFail ==
    /\ pc = "loop"
    /\ requests' = Append(requests, RequestParams(offset))
    /\ responses' = Append(responses,
                           [ok |-> FALSE, records |-> <<>>, offset |-> "None"])
    /\ st_errors' = st_errors + 1
    /\ all_records' = OnRequestException(all_records)
    /\ pc' = "parse"
    /\ UNCHANGED <<timeVars, logVars, cacheVars>>
    /\ UNCHANGED <<durVars, dashVars>>
    /\ UNCHANGED <<api_key, base_id, offset, fetch_result,
                   parseVars, cycleVars, metricVars, normVars>>

\* after the loop: the early return on no records, else the task table
FetchReturn ==
    /\ pc = "parse"
    /\ fetch_result' = IF all_records = <<>>
                       THEN <<EmptyDF, <<>>>>
                       ELSE <<BuildDF(all_records), all_records>>
    /\ pc' = "done"
    /\ UNCHANGED <<timeVars, logVars, cacheVars>>
    /\ UNCHANGED <<durVars, dashVars>>
    /\ UNCHANGED <<api_key, base_id, offset, all_records, requests,
                   responses, st_errors, parseVars, cycleVars, metricVars, normVars>>

FetchNext ==
    \/ FetchCall
    \/ \E page \in Pages, cursor \in Cursors : FetchPageOk(page, cursor)
    \/ FetchPageFail
    \/ FetchReturn

SpecFetch == FetchInit /\ [][FetchNext]_vars

\* the records of the first n responses, in page order
RECURSIVE PagesConcat(_, _)
PagesConcat(resp, n) ==
    IF n = 0 THEN <<>> ELSE PagesConcat(resp, n - 1) \o resp[n].records

NoRequestFailed == \A i \in DOMAIN responses : responses[i].ok

\* C1: the first request carries no cursor, every later request carries
\* the cursor of the response just before it, the loop stops right after
\* the first response with no (or an empty) cursor, and with no failed
\* request the returned records are the pages' records in page order
C1_SequentialPagination ==
    /\ Len(requests) = Len(responses)
    /\ \A i \in DOMAIN requests :
          /\ requests[i].pageSize = 100
          /\ i = 1 => requests[i].offset = "None"
          /\ i > 1 => /\ responses[i - 1].ok
                      /\ responses[i - 1].offset \notin Falsy
                      /\ requests[i].offset = responses[i - 1].offset
    /\ (pc = "loop" /\ responses # <<>>) =>
          /\ responses[Len(responses)].ok
          /\ responses[Len(responses)].offset \notin Falsy
    /\ (pc \in {"parse", "done"} /\ responses # <<>>) =>
          \/ ~responses[Len(responses)].ok
          \/ responses[Len(responses)].offset \in Falsy
    /\ (pc = "done" /\ NoRequestFailed) =>
          fetch_result[2] = PagesConcat(responses, Len(responses))

\* a complete fetch of MaxPages pages, none failed, the last one ending
\* the table with an empty cursor
C1_Witness ==
    /\ pc = "done"
    /\ NoRequestFailed
    /\ Len(requests) = MaxPages
    /\ requests[2].offset = "c1"
    /\ responses[Len(responses)].offset = ""
    /\ Len(fetch_result[2]) >= 2

\* C2: when the k-th request fails no further request is issued, the
\* function still returns, and it returns the records of pages 1..k-1
C2_PartialResultOnFailure ==
    \A k \in DOMAIN responses :
        ~responses[k].ok =>
            /\ k = Len(responses) /\ k = Len(requests)
            /\ pc \in {"parse", "done"}
            /\ all_records = PagesConcat(responses, k - 1)
            /\ pc = "done" =>
                  /\ fetch_result[2] = PagesConcat(responses, k - 1)
                  /\ Len(fetch_result[1]) = Len(fetch_result[2])

\* the third request fails after two pages with records
C2_Witness ==
    /\ pc = "done"
    /\ Len(responses) = 3
    /\ ~responses[3].ok
    /\ Len(fetch_result[2]) = 2

CredentialMissing(x) == x = "None" \/ x = ""

\* C3: with the API key or the base id missing the function returns the
\* empty table and the empty record list, and issues no request
C3_MissingCredentials ==
    (CredentialMissing(api_key) \/ CredentialMissing(base_id)) =>
        /\ requests = <<>>
        /\ pc # "call" => /\ pc = "done"
                          /\ fetch_result = <<EmptyDF, <<>>>>

\* the key is given and the base id is not
C3_Witness ==
    /\ pc = "done"
    /\ api_key = "pat"
    /\ base_id = ""
    /\ fetch_result = <<EmptyDF, <<>>>>

---------------------------------------------------------------------------
(* One record through the record loop: the reviewer-email set.             *)

ReviewerEntries ==
    {DictUser(<<>>, e) : e \in {<<>>, EmailA, <<"A">>, EmailB, EmailM, <<"M">>}}
    \cup {StrUser(EmailA)}

AuthorRelations ==
    {<<>>, <<StrUser(NameA)>>}
    \cup {<<DictUser(NameA, e)>> : e \in {<<>>, EmailM, <<"M">>}}

ParseInit ==
    /\ pc = "record"
    /\ \E author \in AuthorRelations :
       \E reviewers \in SeqsUpTo(ReviewerEntries, MaxReviewers) :
          record = RawRecord(1, "Merged", author, <<>>, reviewers,
                             NoTime, NoTime, NoTime)
    /\ parsed = <<>>
    /\ FetchIdle /\ CycleIdle /\ MetricIdle /\ NormIdle
    /\ TimeIdle /\ LogIdle /\ CacheIdle
    /\ DurIdle /\ DashIdle

ParseOne ==
    /\ pc = "record"
    /\ parsed' = ParseRecord(record)
    /\ pc' = "done"
    /\ UNCHANGED <<timeVars, logVars, cacheVars>>
    /\ UNCHANGED <<durVars, dashVars>>
    /\ UNCHANGED <<record, fetchVars, cycleVars, metricVars, normVars>>

ParseNext == ParseOne

SpecParse == ParseInit /\ [][ParseNext]_vars

\* the author's email as the API gave it ("" when there is none)
AuthorEmail(r) ==
    IF r.expert__user # <<>> /\ r.expert__user[1].kind = "dict"
    THEN r.expert__user[1].email ELSE <<>>

\* the lower-cased, non-empty emails of the record's reviewer entries
ReviewerEmailSet(r) ==
    {Lower(r.reviews__reviewer_users[i].email) :
        i \in {j \in DOMAIN r.reviews__reviewer_users :
                  r.reviews__reviewer_users[j].kind = "dict"}} \ {<<>>}

\* C6: unique_reviewers is the number of distinct lower-cased non-empty
\* reviewer emails other than the author's own email; [a, b, a, author]
\* with author email 'author' gives 2
C6_UniqueReviewers ==
    pc = "done" =>
        /\ parsed.unique_reviewers =
              Cardinality(ReviewerEmailSet(record)
                          \ {Lower(AuthorEmail(record))})
        /\ (/\ AuthorEmail(record) = EmailM
            /\ record.reviews__reviewer_users =
                  <<DictUser(<<>>, EmailA), DictUser(<<>>, EmailB),
                    DictUser(<<>>, EmailA), DictUser(<<>>, EmailM)>>)
           => parsed.unique_reviewers = 2

\* the reviewer list [a, b, a, author] of a task whose author is 'author'
C6_Witness ==
    /\ pc = "done"
    /\ AuthorEmail(record) = EmailM
    /\ record.reviews__reviewer_users =
          <<DictUser(<<>>, EmailA), DictUser(<<>>, EmailB),
            DictUser(<<>>, EmailA), DictUser(<<>>, EmailM)>>
    /\ parsed.unique_reviewers = 2

---------------------------------------------------------------------------
(* calculate_cycle_times.                                                  *)

\* "Cap at 30 days"
CapHours == 720

\* the value of an optional number that has one
Val(x) == CHOOSE v \in x : TRUE

\* (later - earlier).dt.total_seconds() / 3600: NaN when either is NaT
HoursBetween(later, earlier) ==
    IF later = {} \/ earlier = {} THEN {} ELSE {Val(later) - Val(earlier)}

\* a clean-up that also drops the cap itself
CleanUpExclusive(h) ==
    IF h # {} /\ Val(h) < 0 THEN {}
    ELSE IF h # {} /\ Val(h) >= CapHours THEN {}
    ELSE h

\* df.loc[df[col] < 0, col] = None; df.loc[df[col] > 720, col] = None
CleanUp(h) ==
    IF h # {} /\ Val(h) < 0 THEN {}
    ELSE IF h # {} /\ Val(h) > CapHours THEN {}
    ELSE h

\* df['expert_name'].dropna().unique()
Experts(df) == {df[i].expert_name : i \in DOMAIN df} \ {NoneStr}

\* the index labels of df[df['expert_name'] == expert]
ExpertTasks(df, expert) == {i \in DOMAIN df : df[i].expert_name = expert}

\* expert_tasks['time_claimed'].notna().any()
AnyClaimed(df, rows) == \E i \in rows : df[i].time_claimed # {}

\* idxmax in place of idxmin
IdxMax(df, rows) ==
    LET known == {i \in rows : df[i].time_claimed # {}}
        latest == {i \in known : \A j \in known :
                      Val(df[j].time_claimed) <= Val(df[i].time_claimed)}
    IN  CHOOSE i \in latest : \A j \in latest : i <= j

\* idxmin giving the last label of the minimum
IdxMinLast(df, rows) ==
    LET known == {i \in rows : df[i].time_claimed # {}}
        earliest == {i \in known : \A j \in known :
                        Val(df[i].time_claimed) <= Val(df[j].time_claimed)}
    IN  CHOOSE i \in earliest : \A j \in earliest : j <= i

\* expert_tasks['time_claimed'].idxmin(): NaT skipped, the first label of
\* the minimum
IdxMin(df, rows) ==
    LET known == {i \in rows : df[i].time_claimed # {}}
        earliest == {i \in known : \A j \in known :
                        Val(df[i].time_claimed) <= Val(df[j].time_claimed)}
    IN  CHOOSE i \in earliest : \A j \in earliest : i <= j

\* the labels the loop over the experts sets is_first_task on
FirstTaskLabels(df) ==
    {IdxMin(df, ExpertTasks(df, expert)) :
        expert \in {e \in Experts(df) : AnyClaimed(df, ExpertTasks(df, e))}}

\* one row of the returned copy
EnrichRow(df, i) ==
    [record_id |-> df[i].record_id,
     task_id |-> df[i].task_id,
     title |-> df[i].title,
     task_status |-> df[i].task_status,
     expert_name |-> df[i].expert_name,
     expert_email |-> df[i].expert_email,
     reviewer_name |-> df[i].reviewer_name,
     reviewer_emails |-> df[i].reviewer_emails,
     time_claimed |-> df[i].time_claimed,
     time_in_progress |-> df[i].time_in_progress,
     time_ready_for_review |-> df[i].time_ready_for_review,
     time_first_ready_for_review |-> df[i].time_first_ready_for_review,
     time_merged |-> df[i].time_merged,
     reviews_count |-> df[i].reviews_count,
     unique_reviewers |-> df[i].unique_reviewers,
     reviews_approved_count |-> df[i].reviews_approved_count,
     reviews_sent_back_count |-> df[i].reviews_sent_back_count,
     hours_claimed_to_review |->
         CleanUp(HoursBetween(df[i].time_ready_for_review,
                              df[i].time_claimed)),
     hours_review_to_merged |->
         CleanUp(HoursBetween(df[i].time_merged,
                              df[i].time_ready_for_review)),
     hours_total_cycle |->
         CleanUp(HoursBetween(df[i].time_merged, df[i].time_claimed)),
     is_first_task |-> i \in FirstTaskLabels(df)]

\* the rows returned in the opposite order
calculate_cycle_times_reversed(df) ==
    [i \in DOMAIN df |-> EnrichRow(df, Len(df) + 1 - i)]

\* the copy made by df.copy(), a row per row of df, in the order of df
calculate_cycle_times(df) == [i \in DOMAIN df |-> EnrichRow(df, i)]

\* tables of up to MaxTimedTasks tasks of one author, over the lifecycle
\* timestamps around the two limits of the clean-up
TimedRecords ==
    {RawRecord(1, "Merged", <<DictUser(NameA, EmailA)>>, <<>>, <<>>, c, r, m) :
        c \in {NoTime, Iso(0), Iso(100)},
        r \in {BadTime, Iso(0), Iso(820), Iso(821)},
        m \in {NoTime, Iso(0), Iso(820), Iso(1540), Iso(1541)}}

\* tables of up to MaxTasks tasks over the authors (two named, one absent
\* relation, one null name) and the claim times
AuthoredRecords ==
    {RawRecord(1, "Merged", a, <<>>, <<>>, c, NoTime, NoTime) :
        a \in {<<>>, <<DictUser(NameA, EmailA)>>, <<StrUser(NameB)>>,
               <<DictUser(NoneStr, <<>>)>>},
        c \in {NoTime, Iso(100), Iso(200), Iso(300)}}

\* the raw records as the API numbers them: record i has id i
Numbered(recs) ==
    [i \in DOMAIN recs |-> [recs[i] EXCEPT !.id = i, !.task_id = i]]

CycleInit ==
    /\ pc = "cycle"
    /\ \/ \E n \in 1..MaxTimedTasks : \E recs \in [1..n -> TimedRecords] :
             tasks_df = BuildDF(Numbered(recs))
       \/ \E n \in 1..MaxTasks : \E recs \in [1..n -> AuthoredRecords] :
             tasks_df = BuildDF(Numbered(recs))
    /\ cycle_df = <<>>
    /\ FetchIdle /\ ParseIdle /\ MetricIdle /\ NormIdle
    /\ TimeIdle /\ LogIdle /\ CacheIdle
    /\ DurIdle /\ DashIdle

\* the call: the columns are added to a copy (df = df.copy()), which is
\* returned; the table passed in is not written to
CalculateCycleTimes ==
    /\ pc = "cycle"
    /\ cycle_df' = calculate_cycle_times(tasks_df)
    /\ pc' = "done"
    /\ UNCHANGED <<timeVars, logVars, cacheVars>>
    /\ UNCHANGED <<durVars, dashVars>>
    /\ UNCHANGED <<tasks_df, fetchVars, parseVars, metricVars, normVars>>

CycleNext == CalculateCycleTimes

SpecCycle == CycleInit /\ [][CycleNext]_vars

\* the derived duration `got` against its endpoints: present exactly when
\* both are present and the difference is within 0..720, and then equal
\* to the difference
DurationAsClaimed(got, later, earlier) ==
    LET d == Val(later) - Val(earlier)
        kept == later # {} /\ earlier # {} /\ 0 <= d /\ d <= 720
    IN  /\ got # {} <=> kept
        /\ kept => got = {d}

\* C4: each of the three derived durations is present iff both endpoint
\* timestamps are present and the difference d is within 0..720 hours,
\* and is then d itself; 0 and 720 are kept, a negative value and a value
\* above 720 become no value
C4_DurationsFiltered ==
    pc = "done" =>
        \A i \in DOMAIN cycle_df :
            LET t == tasks_df[i]
                e == cycle_df[i]
            IN  /\ DurationAsClaimed(e.hours_claimed_to_review,
                                     t.time_ready_for_review, t.time_claimed)
                /\ DurationAsClaimed(e.hours_review_to_merged,
                                     t.time_merged, t.time_ready_for_review)
                /\ DurationAsClaimed(e.hours_total_cycle,
                                     t.time_merged, t.time_claimed)

\* one table holding a task of exactly 720 hours of work, no review time
\* and 720 hours in total, and a task whose 820 hours in total and whose
\* negative review time are dropped
C4_Witness ==
    /\ pc = "done"
    /\ \E i, j \in DOMAIN cycle_df :
          /\ cycle_df[i].hours_claimed_to_review = {720}
          /\ cycle_df[i].hours_review_to_merged = {0}
          /\ cycle_df[i].hours_total_cycle = {720}
          /\ tasks_df[j].time_claimed = {0}
          /\ tasks_df[j].time_ready_for_review = {821}
          /\ tasks_df[j].time_merged = {820}
          /\ cycle_df[j].hours_claimed_to_review = {}
          /\ cycle_df[j].hours_review_to_merged = {}
          /\ cycle_df[j].hours_total_cycle = {}

\* the authors of a table: the author values of its rows (a null name is
\* no author)
Authors(df) == {df[i].expert_name : i \in DOMAIN df} \ {NoneStr}

TasksOf(df, author) == {i \in DOMAIN df : df[i].expert_name = author}

\* C5: per author at most one task is flagged; with a known claim time
\* among the author's tasks the flagged task has the minimum claim time,
\* with none no task of the author is flagged
C5_FirstTaskPerAuthor ==
    pc = "done" =>
        \A author \in Authors(tasks_df) :
            LET mine == TasksOf(tasks_df, author)
                known == {i \in mine : tasks_df[i].time_claimed # {}}
                flagged == {i \in mine : cycle_df[i].is_first_task}
            IN  /\ Cardinality(flagged) <= 1
                /\ known = {} => flagged = {}
                /\ known # {} =>
                      /\ Cardinality(flagged) = 1
                      /\ \A i \in flagged :
                            /\ i \in known
                            /\ \A j \in known :
                                  Val(tasks_df[i].time_claimed)
                                      <= Val(tasks_df[j].time_claimed)

\* one worker's tasks claimed at t3 > t1 < t2, in that order: only the
\* second row is flagged
C5_Witness ==
    /\ pc = "done"
    /\ Len(cycle_df) = 3
    /\ \A i \in 1..3 : tasks_df[i].expert_name = NameA
    /\ tasks_df[1].time_claimed = {300}
    /\ tasks_df[2].time_claimed = {100}
    /\ tasks_df[3].time_claimed = {200}
    /\ ~cycle_df[1].is_first_task
    /\ cycle_df[2].is_first_task
    /\ ~cycle_df[3].is_first_task

\* the tasks of an author that share the author's earliest claim time
EarliestOf(df, author) ==
    LET known == {i \in TasksOf(df, author) : df[i].time_claimed # {}}
    IN  {i \in known : \A j \in known :
            Val(df[i].time_claimed) <= Val(df[j].time_claimed)}

\* C17: when several tasks of an author share the earliest claim time,
\* exactly one of them is flagged, and it is the one that comes first in
\* the table: the flags are a function of the table alone
C17_TieFirstInOrder ==
    pc = "done" =>
        \A author \in Authors(tasks_df) :
            LET earliest == EarliestOf(tasks_df, author)
            IN  earliest # {} =>
                    \A i \in TasksOf(tasks_df, author) :
                        cycle_df[i].is_first_task
                            <=> (i \in earliest /\ \A j \in earliest : i <= j)

\* three tasks of one author, the second and the third claimed at the
\* same earliest time: the second is flagged, the third is not
C17_Witness ==
    /\ pc = "done"
    /\ Len(cycle_df) = 3
    /\ \A i \in 1..3 : tasks_df[i].expert_name = NameA
    /\ tasks_df[1].time_claimed = {200}
    /\ tasks_df[2].time_claimed = {100}
    /\ tasks_df[3].time_claimed = {100}
    /\ ~cycle_df[1].is_first_task
    /\ cycle_df[2].is_first_task
    /\ ~cycle_df[3].is_first_task

\* the columns of the ingested table and the columns the function adds
IngestedFields ==
    {"record_id", "task_id", "title", "task_status", "expert_name",
     "expert_email", "reviewer_name", "reviewer_emails", "time_claimed",
     "time_in_progress", "time_ready_for_review",
     "time_first_ready_for_review", "time_merged", "reviews_count",
     "unique_reviewers", "reviews_approved_count", "reviews_sent_back_count"}

DerivedFields ==
    {"hours_claimed_to_review", "hours_review_to_merged",
     "hours_total_cycle", "is_first_task"}

\* the table returned has the tasks of the table given, in its order, each
\* with its ingested fields as they were and the derived fields added
OnlyAddsDerivedFields ==
    /\ Len(cycle_df) = Len(tasks_df)
    /\ \A i \in DOMAIN tasks_df :
           /\ DOMAIN cycle_df[i] = IngestedFields \cup DerivedFields
           /\ \A f \in IngestedFields : cycle_df[i][f] = tasks_df[i][f]

C19_FlaggedHasAuthor ==
    pc = "done" =>
        \A i \in DOMAIN cycle_df :
            cycle_df[i].is_first_task =>
                /\ tasks_df[i].time_claimed # {}
                /\ tasks_df[i].expert_name \notin {<<>>, NoneStr}

---------------------------------------------------------------------------
(* The dashboard run: overall metrics and the expert metrics table.        *)
(* Logged hours are counted in minutes (parse_time_to_hours gives          *)
(* H + M/60); a quotient hours / count is the fraction <<n, d>> in lowest  *)
(* terms, standing for n / d minutes per unit.                             *)

EXCLUDED_FROM_AHT == {<<"M","a","h","i","r"," ","B","a","n","s","a","l">>}

\* written_statuses
WrittenStatuses == {"Ready for Review", "Revising", "Approved", "Merged"}

RECURSIVE GCD(_, _)
GCD(a, b) == IF b = 0 THEN a ELSE GCD(b, a % b)

\* x / n for n > 0
Ratio(x, n) ==
    LET g == GCD(IF x < 0 THEN -x ELSE x, n)
    IN  <<x \div g, n \div g>>

\* a quotient that is 0 when there is nothing to divide by
AhtOrZero(hours, count) ==
    IF count > 0 THEN {Ratio(hours, count)} ELSE {<<0, 1>>}

\* hours / count if count > 0 else None
Aht(hours, count) == IF count > 0 THEN {Ratio(hours, count)} ELSE {}

\* round(x, 1) of x = q[1] / q[2] minutes, in tenths of an hour; a value
\* halfway between two tenths goes to the even one, as round does for a
\* float that is exactly halfway
RoundTenths(q) ==
    LET d == 6 * q[2]
        whole == q[1] \div d
        rest == q[1] % d
    IN  IF 2 * rest < d THEN whole
        ELSE IF 2 * rest > d THEN whole + 1
        ELSE IF whole % 2 = 0 THEN whole ELSE whole + 1

\* round(x, 1) if x is not None else None
RoundOrNone(x) == IF x = {} THEN {} ELSE {RoundTenths(Val(x))}

\* df['hours'].sum()
RECURSIVE SumHours(_)
SumHours(logs) ==
    IF logs = <<>> THEN 0 ELSE Head(logs).hours + SumHours(Tail(logs))

\* the sum of every row's hours, the excluded experts' too
HoursForAhtAll(logs) == SumHours(logs)

\* total_hours_for_aht
HoursForAht(logs) ==
    SumHours(SelectSeq(logs,
                       LAMBDA r : r.employee_name \notin EXCLUDED_FROM_AHT))

\* the loop over filtered_tasks['reviewer_emails'] that fills
\* all_reviewer_emails
RECURSIVE AllReviewerEmails(_)
AllReviewerEmails(tasks) ==
    IF tasks = <<>> THEN {}
    ELSE Head(tasks).reviewer_emails \cup AllReviewerEmails(Tail(tasks))

RECURSIVE SumCycle(_)
SumCycle(tasks) ==
    IF tasks = <<>> THEN 0
    ELSE (IF Head(tasks).hours_total_cycle # {}
          THEN Val(Head(tasks).hours_total_cycle) ELSE 0)
         + SumCycle(Tail(tasks))

\* filtered_tasks['hours_total_cycle'].mean(): NaN values skipped, NaN
\* when none is left
MeanCycle(tasks) ==
    LET n == Len(SelectSeq(tasks, LAMBDA t : t.hours_total_cycle # {}))
    IN  IF n = 0 THEN {} ELSE {Ratio(SumCycle(tasks), n)}

\* df[df['task_status'] == 'Merged']
MergedRows(tasks) == SelectSeq(tasks, LAMBDA t : t.task_status = "Merged")

\* df[df['task_status'].isin(written_statuses)]
WrittenRows(tasks) ==
    SelectSeq(tasks, LAMBDA t : t.task_status \in WrittenStatuses)

\* filtered_tasks[filtered_tasks['expert_name'] == expert]
RowsByExpert(tasks, expert) ==
    SelectSeq(tasks, LAMBDA t : t.expert_name = expert)

\* filtered_tasks[filtered_tasks['reviewer_name'] == expert]
RowsByReviewer(tasks, expert) ==
    SelectSeq(tasks, LAMBDA t : t.reviewer_name = expert)

\* the "Calculate overall metrics" block
OverallMetrics(logs, tasks) ==
    LET total_hours_for_aht == IF logs # <<>> THEN HoursForAht(logs) ELSE 0
        merged_tasks == IF tasks # <<>> THEN Len(MergedRows(tasks)) ELSE 0
        written_tasks == IF tasks # <<>> THEN Len(WrittenRows(tasks)) ELSE 0
        total_unique_reviews ==
            IF tasks # <<>> THEN Cardinality(AllReviewerEmails(tasks)) ELSE 0
    IN  [total_hours |-> SumHours(logs),
         total_experts |->
             Cardinality({logs[i].employee_name :
                             i \in {j \in DOMAIN logs : logs[j].hours > 0}}),
         total_hours_for_aht |-> total_hours_for_aht,
         total_tasks |-> Len(tasks),
         merged_tasks |-> merged_tasks,
         written_tasks |-> written_tasks,
         total_unique_reviews |-> total_unique_reviews,
         avg_cycle_time |-> IF tasks # <<>> THEN MeanCycle(tasks)
                            ELSE {<<0, 1>>},
         writer_aht_overall |-> Aht(total_hours_for_aht, written_tasks),
         reviewer_aht_overall |->
             Aht(total_hours_for_aht, total_unique_reviews),
         overall_aht |-> Aht(total_hours_for_aht, merged_tasks)]

\* all_experts, less the names the loop skips (if not expert: continue)
AllExperts(logs, tasks) ==
    ({logs[i].employee_name : i \in DOMAIN logs}
     \cup ({tasks[i].expert_name : i \in DOMAIN tasks} \ {NoneStr})
     \cup ({tasks[i].reviewer_name : i \in DOMAIN tasks} \ {NoneStr}))
    \ {<<>>}

\* reviews of every status counted
ReviewsDoneAnyStatus(tasks, expert) == Len(RowsByReviewer(tasks, expert))

\* reviews_done: the expert's reviewed tasks that are Merged
ReviewsDone(tasks, expert) ==
    Len(MergedRows(RowsByReviewer(tasks, expert)))

\* one iteration of the loop over all_experts: its locals, and the row it
\* appends to expert_metrics
ExpertMetrics(logs, tasks, expert) ==
    LET hours_logged ==
            SumHours(SelectSeq(logs, LAMBDA r : r.employee_name = expert))
        some == tasks # EmptyDF
        tasks_written ==
            IF some THEN Len(WrittenRows(RowsByExpert(tasks, expert))) ELSE 0
        tasks_merged ==
            IF some THEN Len(MergedRows(RowsByExpert(tasks, expert))) ELSE 0
        reviews_done == IF some THEN ReviewsDone(tasks, expert) ELSE 0
        writer_aht == IF some THEN Aht(hours_logged, tasks_written) ELSE {}
        reviewer_aht == IF some THEN Aht(hours_logged, reviews_done) ELSE {}
        overall_aht_expert ==
            IF some THEN Aht(hours_logged, tasks_merged) ELSE {}
    IN  [hours_logged |-> hours_logged,
         tasks_written |-> tasks_written,
         tasks_merged |-> tasks_merged,
         reviews_done |-> reviews_done,
         writer_aht |-> writer_aht,
         reviewer_aht |-> reviewer_aht,
         overall_aht_expert |-> overall_aht_expert,
         row |-> [Expert |-> expert,
                  HoursLogged |-> RoundTenths(<<hours_logged, 1>>),
                  TasksWritten |-> tasks_written,
                  TasksMerged |-> tasks_merged,
                  WriterAHT |-> RoundOrNone(writer_aht),
                  ReviewsDone |-> reviews_done,
                  ReviewerAHT |-> RoundOrNone(reviewer_aht),
                  OverallAHT |-> RoundOrNone(overall_aht_expert)]]

NameBehzad == <<"B","e","h","z","a","d">>
NameMahir == <<"M","a","h","i","r"," ","B","a","n","s","a","l">>
AliasBehzad == <<"b","e","h","z","a","d"," ","a","n","s","a","r","i","n","e","j","a","d">>

UserBehzad == DictUser(AliasBehzad, <<"B">>)
UserMahir == DictUser(NameMahir, EmailM)
UserAnn == DictUser(NameA, EmailA)

\* <<author, primary reviewer, reviewers of all review actions>>
MetricRelations ==
    {<< <<UserBehzad>>, <<>>, <<>> >>,
     << <<UserBehzad>>, <<UserMahir>>, <<UserMahir, UserMahir>> >>,
     << <<UserMahir>>, <<UserBehzad>>, <<UserBehzad, UserAnn>> >>,
     << <<>>, <<UserBehzad>>, <<UserBehzad>> >>,
     << <<UserAnn>>, <<StrUser(NameBehzad)>>, <<UserAnn, UserBehzad>> >>}

MetricStatuses ==
    {"In Progress", "Ready for Review", "Revising", "Approved", "Merged"}

MetricRecords ==
    {RawRecord(1, st, rel[1], rel[2], rel[3], Iso(0), Iso(10), Iso(30)) :
        st \in MetricStatuses, rel \in MetricRelations}

\* the table load_time_logs returns: one row per name, most hours first;
\* -1 leaves the name out
LogTable(behzad, mahir) ==
    LET b == IF behzad >= 0
             THEN <<[employee_name |-> NameBehzad, hours |-> behzad]>>
             ELSE <<>>
        m == IF mahir >= 0
             THEN <<[employee_name |-> NameMahir, hours |-> mahir]>>
             ELSE <<>>
    IN  IF behzad >= mahir THEN b \o m ELSE m \o b

\* the table load_time_logs returns when Behzad's only row is '-1:30', which
\* parse_time_to_hours turns into -1 + 30/60 hours
NegativeLogTable ==
    <<[employee_name |-> NameMahir, hours |-> 90],
      [employee_name |-> NameBehzad, hours |-> 0 - 30]>>

MetricInit ==
    /\ pc = "tasks"
    /\ \/ \E behzad \in {-1, 0, 100, 300}, mahir \in {-1, 90} :
             time_logs = LogTable(behzad, mahir)
       \/ time_logs = NegativeLogTable
    /\ \E n \in 0..MaxMetricTasks : \E recs \in [1..n -> MetricRecords] :
          tasks_df = BuildDF(Numbered(recs))
    /\ cycle_df = <<>> /\ filtered_tasks = <<>>
    /\ overall = <<>> /\ expert_metrics = <<>>
    /\ FetchIdle /\ ParseIdle /\ NormIdle
    /\ TimeIdle /\ LogIdle /\ CacheIdle
    /\ DurIdle /\ DashIdle

\* tasks_df = calculate_cycle_times(tasks_df) unless tasks_df is empty;
\* filtered_tasks = tasks_df
EnrichTasks ==
    /\ pc = "tasks"
    /\ filtered_tasks' = IF tasks_df # EmptyDF
                         THEN calculate_cycle_times(tasks_df)
                         ELSE EmptyDF
    /\ pc' = "overall"
    /\ UNCHANGED <<timeVars, logVars, cacheVars>>
    /\ UNCHANGED <<durVars, dashVars>>
    /\ UNCHANGED <<time_logs, overall, expert_metrics,
                   fetchVars, parseVars, cycleVars, normVars>>

ComputeOverall ==
    /\ pc = "overall"
    /\ overall' = OverallMetrics(time_logs, filtered_tasks)
    /\ pc' = "experts"
    /\ UNCHANGED <<timeVars, logVars, cacheVars>>
    /\ UNCHANGED <<durVars, dashVars>>
    /\ UNCHANGED <<time_logs, filtered_tasks, expert_metrics,
                   fetchVars, parseVars, cycleVars, normVars>>

ComputeExpertMetrics ==
    /\ pc = "experts"
    /\ expert_metrics' =
          [expert \in AllExperts(time_logs, filtered_tasks) |->
              ExpertMetrics(time_logs, filtered_tasks, expert)]
    /\ pc' = "done"
    /\ UNCHANGED <<timeVars, logVars, cacheVars>>
    /\ UNCHANGED <<durVars, dashVars>>
    /\ UNCHANGED <<time_logs, filtered_tasks, overall,
                   fetchVars, parseVars, cycleVars, normVars>>

MetricNext == EnrichTasks \/ ComputeOverall \/ ComputeExpertMetrics

SpecMetrics == MetricInit /\ [][MetricNext]_vars

\* hoursLogged of a worker: the hours of the worker's time-log rows
LoggedBy(worker) ==
    LET rows == {i \in DOMAIN time_logs :
                    time_logs[i].employee_name = worker}
    IN  IF rows = {} THEN 0 ELSE time_logs[CHOOSE i \in rows : TRUE].hours

Written == {i \in DOMAIN filtered_tasks :
               filtered_tasks[i].task_status \in
                   {"Ready for Review", "Revising", "Approved", "Merged"}}

Merged == {i \in DOMAIN filtered_tasks :
              filtered_tasks[i].task_status = "Merged"}

AuthoredBy(worker) ==
    {i \in DOMAIN filtered_tasks : filtered_tasks[i].expert_name = worker}

ReviewedBy(worker) ==
    {i \in DOMAIN filtered_tasks : filtered_tasks[i].reviewer_name = worker}

\* a / b = q, for b > 0 and a fraction q
IsQuotient(q, a, b) == q[2] > 0 /\ q[1] * b = a * q[2]

IsNumber(x) == x # {} /\ Val(x)[2] > 0

\* the AHT `aht` is no value when its denominator is 0 and a number when
\* the denominator is positive
NoneIffZero(aht, denominator) ==
    /\ denominator = 0 => aht = {}
    /\ denominator > 0 => IsNumber(aht)

AllReviewerEmailSet ==
    UNION {filtered_tasks[i].reviewer_emails : i \in DOMAIN filtered_tasks}

\* C8: each AHT, per worker and global, is no value exactly when its
\* denominator is 0, whatever the hours logged (never 0 or an infinity),
\* and a number when the denominator is positive
C8_NoneOnZeroDenominator ==
    pc = "done" =>
        /\ \A w \in DOMAIN expert_metrics :
              LET m == expert_metrics[w]
              IN  /\ NoneIffZero(m.writer_aht,
                                 Cardinality(AuthoredBy(w) \cap Written))
                  /\ NoneIffZero(m.overall_aht_expert,
                                 Cardinality(AuthoredBy(w) \cap Merged))
                  /\ NoneIffZero(m.reviewer_aht,
                                 Cardinality(ReviewedBy(w) \cap Merged))
                  /\ m.row.WriterAHT = {} <=> m.writer_aht = {}
                  /\ m.row.OverallAHT = {} <=> m.overall_aht_expert = {}
                  /\ m.row.ReviewerAHT = {} <=> m.reviewer_aht = {}
        /\ NoneIffZero(overall.writer_aht_overall, Cardinality(Written))
        /\ NoneIffZero(overall.overall_aht, Cardinality(Merged))
        /\ NoneIffZero(overall.reviewer_aht_overall,
                       Cardinality(AllReviewerEmailSet))

\* Behzad logged 300 minutes (5 hours) and wrote no task, while the table
\* holds a written task of somebody else
C8_Witness ==
    /\ pc = "done"
    /\ NameBehzad \in DOMAIN expert_metrics
    /\ expert_metrics[NameBehzad].hours_logged = 300
    /\ expert_metrics[NameBehzad].tasks_written = 0
    /\ expert_metrics[NameBehzad].writer_aht = {}
    /\ expert_metrics[NameBehzad].row.WriterAHT = {}
    /\ overall.writer_aht_overall # {}
    /\ overall.overall_aht = {}

\* the hours logged by the workers of the set names
RECURSIVE LoggedByAll(_)
LoggedByAll(names) ==
    IF names = {} THEN 0
    ELSE LET w == CHOOSE x \in names : TRUE
         IN  LoggedBy(w) + LoggedByAll(names \ {w})

LoggedNames == {time_logs[i].employee_name : i \in DOMAIN time_logs}

\* C9: the global AHTs divide the hours logged by exactly the workers
\* that are not excluded by the number of written tasks, of distinct
\* reviewer emails over all tasks and of Merged tasks, the tasks of an
\* excluded worker counted like any other
C9_GlobalAht ==
    pc = "done" =>
        LET hours == LoggedByAll(LoggedNames \ {NameMahir})
            written == Cardinality(Written)
            reviews == Cardinality(AllReviewerEmailSet)
            merged == Cardinality(Merged)
        IN  /\ overall.total_hours_for_aht = hours
            /\ overall.written_tasks = written
            /\ overall.total_unique_reviews = reviews
            /\ overall.merged_tasks = merged
            /\ written > 0 =>
                  /\ overall.writer_aht_overall # {}
                  /\ IsQuotient(Val(overall.writer_aht_overall),
                                hours, written)
            /\ reviews > 0 =>
                  /\ overall.reviewer_aht_overall # {}
                  /\ IsQuotient(Val(overall.reviewer_aht_overall),
                                hours, reviews)
            /\ merged > 0 =>
                  /\ overall.overall_aht # {}
                  /\ IsQuotient(Val(overall.overall_aht), hours, merged)

\* Mahir Bansal (excluded) logged 90 minutes and Behzad 300; both tasks
\* are Merged tasks written by Mahir Bansal and reviewed by the same two
\* people
C9_Witness ==
    /\ pc = "done"
    /\ LoggedBy(NameMahir) = 90
    /\ LoggedBy(NameBehzad) = 300
    /\ Len(filtered_tasks) = 2
    /\ \A i \in DOMAIN filtered_tasks :
          /\ filtered_tasks[i].expert_name = NameMahir
          /\ filtered_tasks[i].task_status = "Merged"
          /\ Cardinality(filtered_tasks[i].reviewer_emails) = 2
    /\ overall.total_hours_for_aht = 300
    /\ overall.merged_tasks = 2
    /\ overall.total_unique_reviews = 2
    /\ overall.overall_aht = {<<150, 1>>}

---------------------------------------------------------------------------
(* normalize_expert_name applied to a name, then to its own result. *)

RECURSIVE StringsUpTo(_, _)
StringsUpTo(alphabet, n) ==
    IF n = 0 THEN {<<>>}
    ELSE LET shorter == StringsUpTo(alphabet, n - 1)
         IN  shorter \cup {Append(s, c) : s \in shorter, c \in alphabet}

KnownNames == AliasKeys \cup CanonicalNames

NormInputs ==
    {NoneStr, NaNStr}
    \cup KnownNames
    \cup {Upper(s) : s \in KnownNames}
    \cup {Lower(s) : s \in KnownNames}
    \cup {<<" ">> \o s \o <<" ", "\t">> : s \in KnownNames}
    \cup {<<"\t">> \o Upper(s) : s \in KnownNames}
    \cup StringsUpTo({" ", "a", "B"}, MaxLen)

NormInit ==
    /\ pc = "normalize"
    /\ name_in \in NormInputs
    /\ name_once = NoneStr /\ name_twice = NoneStr
    /\ FetchIdle /\ ParseIdle /\ CycleIdle /\ MetricIdle
    /\ TimeIdle /\ LogIdle /\ CacheIdle
    /\ DurIdle /\ DashIdle

NormalizeOnce ==
    /\ pc = "normalize"
    /\ name_once' = normalize_expert_name(name_in)
    /\ pc' = IF name_once' = AttributeError THEN "raised" ELSE "renormalize"
    /\ UNCHANGED <<timeVars, logVars, cacheVars>>
    /\ UNCHANGED <<durVars, dashVars>>
    /\ UNCHANGED <<name_in, name_twice, fetchVars, parseVars, cycleVars, metricVars>>

NormalizeTwice ==
    /\ pc = "renormalize"
    /\ name_twice' = normalize_expert_name(name_once)
    /\ pc' = "done"
    /\ UNCHANGED <<timeVars, logVars, cacheVars>>
    /\ UNCHANGED <<durVars, dashVars>>
    /\ UNCHANGED <<name_in, name_once, fetchVars, parseVars, cycleVars, metricVars>>

NormNext == NormalizeOnce \/ NormalizeTwice

SpecNorm == NormInit /\ [][NormNext]_vars

\* C10: normalize_expert_name is idempotent: for alias keys, canonical
\* names and arbitrary strings (padded, any case), normalising the
\* result again gives the result
C10_Idempotent == pc = "done" => name_twice = name_once

\* a padded, differently cased alias resolved by the case-insensitive loop
C10_Witness ==
    /\ pc = "done"
    /\ name_in \notin KnownNames
    /\ Strip(name_in) # name_in
    /\ name_once \in CanonicalNames

\* the entries of EXPERT_ALIASES whose lower-cased key is the lower-cased,
\* trimmed name
CaseInsensitiveHits(name) ==
    {i \in DOMAIN EXPERT_ALIASES :
        Lower(EXPERT_ALIASES[i][1]) = Strip(Lower(name))}

AbsentName(name) == name \in {NoneStr, NaNStr, <<>>}

\* C11: normalize_expert_name never fails and resolves in this order: an
\* empty or absent name is returned unchanged; else a name that is an
\* alias key gives that key's canonical name; else a name whose
\* lower-cased, trimmed form is the lower-cased form of some key gives
\* the canonical name of the first such key of the table; else the
\* trimmed name comes back
C11_ResolutionOrder ==
    pc \in {"renormalize", "raised", "done"} =>
        /\ pc # "raised"
        /\ AbsentName(name_in) => name_once = name_in
        /\ ~AbsentName(name_in) /\ name_in \in AliasKeys =>
               \E i \in DOMAIN EXPERT_ALIASES :
                   /\ EXPERT_ALIASES[i][1] = name_in
                   /\ name_once = EXPERT_ALIASES[i][2]
        /\ ~AbsentName(name_in) /\ name_in \notin AliasKeys =>
               LET hits == CaseInsensitiveHits(name_in)
               IN  IF hits = {} THEN name_once = Strip(name_in)
                   ELSE \E i \in hits :
                            /\ \A j \in hits : i <= j
                            /\ name_once = EXPERT_ALIASES[i][2]

---------------------------------------------------------------------------
(* parse_time_to_hours.  The value returned, hours + minutes / 60, is      *)
(* counted in minutes: 60 * hours + minutes.                                *)

MaxTimeLen == 5

DigitChars == {"0", "1", "2", "3", "4", "5", "6", "7", "8", "9"}

DigitValue(c) ==
    CASE c = "0" -> 0 [] c = "1" -> 1 [] c = "2" -> 2 [] c = "3" -> 3
      [] c = "4" -> 4 [] c = "5" -> 5 [] c = "6" -> 6 [] c = "7" -> 7
      [] c = "8" -> 8 [] c = "9" -> 9

\* str.split(":")
RECURSIVE SplitColon(_)
SplitColon(s) ==
    IF \A i \in DOMAIN s : s[i] # ":" THEN <<s>>
    ELSE LET i == CHOOSE k \in DOMAIN s :
                      s[k] = ":" /\ \A j \in 1..(k - 1) : s[j] # ":"
         IN  <<SubSeq(s, 1, i - 1)>> \o SplitColon(SubSeq(s, i + 1, Len(s)))

\* the digits of an int() literal once whitespace and sign are taken off
Unsigned(text) ==
    LET t == Strip(text)
    IN  IF t # <<>> /\ t[1] \in {"+", "-"} THEN Tail(t) ELSE t

\* int(text) does not raise ValueError: digits, single underscores between
\* them, an optional sign before, whitespace around
IsIntLiteral(text) ==
    LET d == Unsigned(text)
    IN  /\ d # <<>>
        /\ \A i \in DOMAIN d : d[i] \in DigitChars \cup {"_"}
        /\ d[1] # "_" /\ d[Len(d)] # "_"
        /\ \A i \in 1..(Len(d) - 1) : ~(d[i] = "_" /\ d[i + 1] = "_")

RECURSIVE DigitsValue(_)
DigitsValue(d) ==
    IF d = <<>> THEN 0
    ELSE LET front == SubSeq(d, 1, Len(d) - 1)
             last == d[Len(d)]
         IN  IF last = "_" THEN DigitsValue(front)
             ELSE 10 * DigitsValue(front) + DigitValue(last)

\* int(text), for a text that is a literal
IntOf(text) ==
    LET t == Strip(text)
        v == DigitsValue(Unsigned(text))
    IN  IF t[1] = "-" THEN 0 - v ELSE v

parse_time_to_hours(cell) ==
    IF cell \in {NaNStr, NoneStr, <<>>} THEN 0
    ELSE LET parts == SplitColon(cell)
         IN  IF ~IsIntLiteral(parts[1]) THEN 0
             ELSE IF Len(parts) > 1 /\ ~IsIntLiteral(parts[2]) THEN 0
             ELSE 60 * IntOf(parts[1])
                    + (IF Len(parts) > 1 THEN IntOf(parts[2]) ELSE 0)

TimeAlphabet == {"0", "1", "2", "3", ":", "-", "x"}

TimeInputs == {NaNStr} \cup StringsUpTo(TimeAlphabet, MaxTimeLen)

TimeInit ==
    /\ pc = "parse_time"
    /\ time_str \in TimeInputs
    /\ parsed_hours = 0
    /\ FetchIdle /\ ParseIdle /\ CycleIdle /\ MetricIdle /\ NormIdle
    /\ LogIdle /\ CacheIdle
    /\ DurIdle /\ DashIdle

ParseTimeToHours ==
    /\ pc = "parse_time"
    /\ parsed_hours' = parse_time_to_hours(time_str)
    /\ pc' = "done"
    /\ UNCHANGED <<time_str, fetchVars, parseVars, cycleVars, metricVars,
                   normVars, logVars, cacheVars>>
    /\ UNCHANGED <<durVars, dashVars>>

TimeNext == ParseTimeToHours

SpecTime == TimeInit /\ [][TimeNext]_vars

\* the number of colons of a string
ColonCount(s) == Cardinality({i \in DOMAIN s : s[i] = ":"})

\* C12: parse_time_to_hours gives H + M/60 hours for 'H:M' with integers H
\* and M, H hours for an integer H without a colon, and 0.0 for every
\* other input: empty, absent or malformed
C12_ParseTimeToHours ==
    pc = "done" /\ time_str # NoneStr =>
        LET parts == SplitColon(time_str)
        IN  IF time_str = NaNStr THEN parsed_hours = 0
            ELSE IF /\ ColonCount(time_str) = 1
                    /\ IsIntLiteral(parts[1]) /\ IsIntLiteral(parts[2])
                 THEN parsed_hours = 60 * IntOf(parts[1]) + IntOf(parts[2])
            ELSE IF ColonCount(time_str) = 0 /\ IsIntLiteral(time_str)
                 THEN parsed_hours = 60 * IntOf(time_str)
            ELSE parsed_hours = 0

---------------------------------------------------------------------------
(* load_time_logs.  A path of csv_paths stands for the file behind it: no  *)
(* file, a file pd.read_csv raises on, or a table with its header and its   *)
(* rows of cells.                                                           *)

MaxPaths == 2
MaxLogRows == 2

HdrName == <<"E","m","p","l","o","y","e","e"," ","N","a","m","e">>
HdrTime == <<"T","o","t","a","l"," ","T","i","m","e"," ","[","h","]">>
HdrOther == <<"P","r","o","j","e","c","t">>

MissingFile == [kind |-> "missing", columns |-> <<>>, rows |-> <<>>]
MalformedFile == [kind |-> "malformed", columns |-> <<>>, rows |-> <<>>]
CsvFile(columns, rows) == [kind |-> "csv", columns |-> columns, rows |-> rows]

\* df.columns.str.strip()
StrippedColumns(file) == [i \in DOMAIN file.columns |-> Strip(file.columns[i])]

\* 'Employee Name' in df.columns and 'Total Time [h]' in df.columns
HasBothColumns(file) ==
    /\ \E i \in DOMAIN file.columns : StrippedColumns(file)[i] = HdrName
    /\ \E i \in DOMAIN file.columns : StrippedColumns(file)[i] = HdrTime

\* df[header]: the position of the column
ColumnOf(file, header) ==
    CHOOSE i \in DOMAIN file.columns : StrippedColumns(file)[i] = header

\* str.strip('"')
RECURSIVE StripQuotes(_)
StripQuotes(s) ==
    IF s # <<>> /\ s[1] = "\"" THEN StripQuotes(Tail(s))
    ELSE IF s # <<>> /\ s[Len(s)] = "\""
         THEN StripQuotes(SubSeq(s, 1, Len(s) - 1))
    ELSE s

\* .str.strip().str.strip('"').apply(normalize_expert_name): the str
\* methods leave a NaN a NaN
EmployeeName(cell) ==
    IF cell = NaNStr THEN normalize_expert_name(NaNStr)
    ELSE normalize_expert_name(StripQuotes(Strip(cell)))

\* df[['employee_name', 'hours']]
Frame(file) ==
    [r \in DOMAIN file.rows |->
        [employee_name |-> EmployeeName(file.rows[r][ColumnOf(file, HdrName)]),
         hours |-> parse_time_to_hours(file.rows[r][ColumnOf(file, HdrTime)])]]

\* the try block raises: read_csv on the file, or the apply on a name
RaisesOnLoad(file) ==
    \/ file.kind = "malformed"
    \/ /\ file.kind = "csv" /\ HasBothColumns(file)
       /\ \E r \in DOMAIN file.rows : Frame(file)[r].employee_name = AttributeError

\* pd.concat(all_data, ignore_index=True)
RECURSIVE Concat(_)
Concat(frames) ==
    IF frames = <<>> THEN <<>> ELSE Head(frames) \o Concat(Tail(frames))

\* combined.groupby('employee_name', as_index=False)['hours'].sum()
GroupSum(rows) ==
    {[employee_name |-> n,
      hours |-> SumHours(SelectSeq(rows, LAMBDA r : r.employee_name = n))] :
        n \in {rows[i].employee_name : i \in DOMAIN rows}}

\* aggregated.sort_values('hours', ascending=False): the orders of the
\* rows with falling hours, rows of equal hours in either order
SortedByHours(groups) ==
    {t \in [1..Cardinality(groups) -> groups] :
        /\ \A i, j \in DOMAIN t : i # j => t[i] # t[j]
        /\ \A i, j \in DOMAIN t : i < j => t[i].hours >= t[j].hours}

NameAlice == <<"A","l","i","c","e">>
NameJozsefAccent == <<"J","oacute","z","s","e","f"," ","V","a","s","s">>
NameJozsefQuoted ==
    <<" ","\"","j","o","z","s","e","f"," ","v","a","s","s","\"">>
NameJozsef == <<"J","o","z","s","e","f"," ","V","a","s","s">>

NameCells == {NameAlice, NameJozsefAccent, NameJozsefQuoted, NaNStr}
TimeCells ==
    {<<"1",":","3","0">>, <<"2",":","0","0">>, <<"-","1",":","3","0">>}
LogRows == {<<n, t>> : n \in NameCells, t \in TimeCells}

LogFiles ==
    {MissingFile, MalformedFile}
    \cup {CsvFile(<<HdrName, HdrTime>>, rows) : rows \in SeqsUpTo(LogRows, MaxLogRows)}
    \cup {CsvFile(<<<<" ">> \o HdrTime \o <<" ">>, HdrName \o <<" ">>>>, <<<<r[2], r[1]>>>>) : r \in LogRows}
    \cup {CsvFile(<<HdrName, HdrOther>>, <<r>>) : r \in LogRows}
    \cup {CsvFile(<<HdrOther, HdrTime>>, <<r>>) : r \in LogRows}

LogInit ==
    /\ pc = "load"
    /\ \E n \in 1..MaxPaths : csv_paths \in [1..n -> LogFiles]
    /\ path_idx = 1
    /\ all_data = <<>> /\ st_warnings = <<>>
    /\ FetchIdle /\ ParseIdle /\ CycleIdle /\ MetricIdle /\ NormIdle
    /\ TimeIdle /\ CacheIdle
    /\ DurIdle /\ DashIdle

\* one turn of 'for path in csv_paths'
LoadPath ==
    /\ pc = "load"
    /\ path_idx <= Len(csv_paths)
    /\ LET file == csv_paths[path_idx]
       IN  IF file.kind = "missing"
           THEN UNCHANGED <<all_data, st_warnings>>
           ELSE IF RaisesOnLoad(file)
           THEN /\ st_warnings' = Append(st_warnings, path_idx)
                /\ UNCHANGED all_data
           ELSE IF HasBothColumns(file)
           THEN /\ all_data' = Append(all_data, Frame(file))
                /\ UNCHANGED st_warnings
           ELSE UNCHANGED <<all_data, st_warnings>>
    /\ path_idx' = path_idx + 1
    /\ UNCHANGED <<pc, csv_paths, fetchVars, parseVars, cycleVars, metricVars,
                   normVars, timeVars, cacheVars>>
    /\ UNCHANGED <<durVars, dashVars>>

\* the lines after the loop, up to the return
Aggregate ==
    /\ pc = "load"
    /\ path_idx > Len(csv_paths)
    /\ time_logs' \in SortedByHours(GroupSum(Concat(all_data)))
    /\ pc' = "done"
    /\ UNCHANGED <<filtered_tasks, overall, expert_metrics>>
    /\ UNCHANGED <<logVars, fetchVars, parseVars, cycleVars, normVars,
                   timeVars, cacheVars>>
    /\ UNCHANGED <<durVars, dashVars>>

LogNext == LoadPath \/ Aggregate

SpecLogs == LogInit /\ [][LogNext]_vars

\* the sources exposing both columns
PoolableSources ==
    {i \in DOMAIN csv_paths :
        csv_paths[i].kind = "csv" /\ HasBothColumns(csv_paths[i])}

\* the rows of those sources that carry a worker name, each with its
\* normalized name and its parsed hours
PooledRows ==
    Concat([i \in DOMAIN csv_paths |->
              IF i \in PoolableSources
              THEN SelectSeq(Frame(csv_paths[i]),
                             LAMBDA r : r.employee_name # AttributeError)
              ELSE <<>>])

PooledHours(name) ==
    SumHours(SelectSeq(PooledRows, LAMBDA r : r.employee_name = name))

\* C13: the table load_time_logs returns has exactly one row per
\* normalized worker name found in the sources exposing both columns
\* (header whitespace ignored), with the sum of the parsed hours of all
\* their rows of that name; sources lacking a column add nothing
C13_PooledSums ==
    pc = "done" =>
        /\ \A i, j \in DOMAIN time_logs :
               i # j => time_logs[i].employee_name # time_logs[j].employee_name
        /\ {time_logs[i].employee_name : i \in DOMAIN time_logs}
             = {PooledRows[k].employee_name : k \in DOMAIN PooledRows}
        /\ \A i \in DOMAIN time_logs :
               time_logs[i].hours = PooledHours(time_logs[i].employee_name)

\* C14: the hours of every time-log entry, and so every aggregated total,
\* are at least 0 whatever the total-time field holds
C14_HoursNonNegative ==
    /\ \A f \in DOMAIN all_data : \A r \in DOMAIN all_data[f] :
           all_data[f][r].hours >= 0
    /\ \A i \in DOMAIN time_logs : time_logs[i].hours >= 0

\* the sources whose rows the loop keeps
LoadedSources == {i \in PoolableSources : ~RaisesOnLoad(csv_paths[i])}

\* C15: every source that is missing or malformed gets a warning and is
\* skipped, and the table returned is the aggregate of the other sources
C15_UnreadableSkipped ==
    pc = "done" =>
        /\ \A i \in DOMAIN csv_paths :
               csv_paths[i].kind \in {"missing", "malformed"} =>
                   \E w \in DOMAIN st_warnings : st_warnings[w] = i
        /\ time_logs \in SortedByHours(GroupSum(Concat(
               [i \in DOMAIN csv_paths |->
                   IF i \in LoadedSources THEN Frame(csv_paths[i]) ELSE <<>>])))

\* C20: in a source with a row whose worker name is absent, the other
\* rows are still aggregated: each one's name has its row in the table
\* returned, with the pooled hours of that name
C20_AbsentNameRowOnly ==
    pc = "done" =>
        \A i \in PoolableSources :
            LET frame == Frame(csv_paths[i])
            IN  (\E r \in DOMAIN frame : frame[r].employee_name = AttributeError)
                => \A r \in DOMAIN frame :
                       frame[r].employee_name # AttributeError =>
                           \E k \in DOMAIN time_logs :
                               /\ time_logs[k].employee_name = frame[r].employee_name
                               /\ time_logs[k].hours = PooledHours(frame[r].employee_name)

---------------------------------------------------------------------------
(* @st.cache_data(ttl=300) around fetch_airtable_tasks.  Streamlit keeps   *)
(* one entry per argument tuple and drops it ttl seconds after it was      *)
(* stored; the script never clears the cache.  A call that finds no live   *)
(* entry runs the function, whose pages are one record each and whose      *)
(* requests may fail after any page.                                        *)

CacheTtl == 300
MaxCalls == 3
MaxTicks == 4
MaxRemote == 2

\* the argument tuples: (api_key, base_id, table_id)
CacheKeys ==
    {<<"pat", "app", "tblA">>, <<"pat", "app", "tblB">>, <<"", "app", "tblA">>}

\* an entry never expires
EntryLiveForever(entry, t) == t >= entry.stored

\* the entry stored at entry.stored is still served at time t
EntryLive(entry, t) == t < entry.stored + CacheTtl

LiveEntries(key) == {e \in cache : e.key = key /\ EntryLive(e, now)}

\* what a run of the function returns once it has gathered recs
FetchBody(key, recs) ==
    IF MissingCredentials(key[1], key[2]) \/ recs = <<>>
    THEN <<EmptyDF, <<>>>>
    ELSE <<BuildDF(recs), recs>>

CacheInit ==
    /\ pc = "serve"
    /\ cache = {} /\ now = 0 /\ remote = <<>> /\ calls = <<>>
    /\ FetchIdle /\ ParseIdle /\ CycleIdle /\ MetricIdle /\ NormIdle
    /\ TimeIdle /\ LogIdle
    /\ DurIdle /\ DashIdle

\* a call served from the cache: the function does not run
CacheHit(key) ==
    /\ pc = "serve"
    /\ Len(calls) < MaxCalls
    /\ LiveEntries(key) # {}
    /\ LET entry == CHOOSE e \in LiveEntries(key) : TRUE
       IN  calls' = Append(calls, [key |-> key, at |-> now, ran |-> FALSE,
                                   requested |-> FALSE, result |-> entry.value])
    /\ UNCHANGED <<pc, cache, now, remote, fetchVars, parseVars, cycleVars,
                   metricVars, normVars, timeVars, logVars>>
    /\ UNCHANGED <<durVars, dashVars>>

\* a call that finds no live entry: the function runs, gathers the first
\* k records (all of them unless a request fails) and its return value is
\* stored
CacheMiss(key, k) ==
    /\ pc = "serve"
    /\ Len(calls) < MaxCalls
    /\ LiveEntries(key) = {}
    /\ LET value == FetchBody(key, SubSeq(remote, 1, k))
       IN  /\ cache' = {e \in cache : e.key # key}
                         \cup {[key |-> key, value |-> value, stored |-> now]}
           /\ calls' = Append(calls,
                  [key |-> key, at |-> now, ran |-> TRUE,
                   requested |-> ~MissingCredentials(key[1], key[2]),
                   result |-> value])
    /\ UNCHANGED <<pc, now, remote, fetchVars, parseVars, cycleVars,
                   metricVars, normVars, timeVars, logVars>>
    /\ UNCHANGED <<durVars, dashVars>>

\* time passes, 100 seconds at a time
Tick ==
    /\ pc = "serve"
    /\ now < 100 * MaxTicks
    /\ now' = now + 100
    /\ UNCHANGED <<pc, cache, remote, calls, fetchVars, parseVars, cycleVars,
                   metricVars, normVars, timeVars, logVars>>
    /\ UNCHANGED <<durVars, dashVars>>

\* a record is added to the Airtable table
RemoteChange ==
    /\ pc = "serve"
    /\ Len(remote) < MaxRemote
    /\ LET rec == CHOOSE r \in SampleRecords : r.id = (Len(remote) % 2) + 1
       IN  remote' = Append(remote, rec)
    /\ UNCHANGED <<pc, cache, now, calls, fetchVars, parseVars, cycleVars,
                   metricVars, normVars, timeVars, logVars>>
    /\ UNCHANGED <<durVars, dashVars>>

CacheNext ==
    \/ \E key \in CacheKeys : CacheHit(key)
    \/ \E key \in CacheKeys : \E k \in 0..Len(remote) : CacheMiss(key, k)
    \/ Tick
    \/ RemoteChange

SpecCache == CacheInit /\ [][CacheNext]_vars

\* the earlier calls with the arguments of call j that ran the function
\* less than the TTL before call j
FetchesWithinTtl(j) ==
    {i \in 1..(j - 1) :
        /\ calls[i].key = calls[j].key
        /\ calls[i].ran
        /\ calls[j].at - calls[i].at < CacheTtl}

---------------------------------------------------------------------------
(* The three durations of calculate_cycle_times as floats.  The code       *)
(* divides a difference in seconds by 3600; the quotient is rounded to the *)
(* nearest float, ties to even.  A Python float carries 53 significant     *)
(* bits; the model rounds in the same way to MantissaBits bits.  A float   *)
(* is <<m, e>>, standing for m * 2^e, with 2^(MantissaBits-1) <= |m| <     *)
(* 2^MantissaBits, or <<0, 0>>.                                             *)

MantissaBits == 8
MaxSeconds == 8

RECURSIVE Pow2(_)
Pow2(n) == IF n = 0 THEN 1 ELSE 2 * Pow2(n - 1)

\* the float nearest to (n / d) * 2^e, for n >= 0 and d > 0
RECURSIVE RoundToFloat(_, _, _)
RoundToFloat(n, d, e) ==
    IF n = 0 THEN <<0, 0>>
    ELSE IF n >= Pow2(MantissaBits) * d THEN RoundToFloat(n, 2 * d, e + 1)
    ELSE IF n < Pow2(MantissaBits - 1) * d THEN RoundToFloat(2 * n, d, e - 1)
    ELSE LET q == n \div d
             r == n % d
             up == 2 * r > d \/ (2 * r = d /\ q % 2 = 1)
             m == IF up THEN q + 1 ELSE q
         IN  IF m = Pow2(MantissaBits) THEN <<Pow2(MantissaBits - 1), e + 1>>
             ELSE <<m, e>>

\* seconds / 3600
FloatHours(seconds) ==
    IF seconds >= 0 THEN RoundToFloat(seconds, 3600, 0)
    ELSE LET f == RoundToFloat(0 - seconds, 3600, 0) IN <<0 - f[1], f[2]>>

\* x + y, for x >= 0 and y >= 0: the exact sum, rounded; an operand below
\* a quarter of the last place of the other one is rounded away
FloatSum(x, y) ==
    IF x[1] = 0 THEN y
    ELSE IF y[1] = 0 THEN x
    ELSE LET hi == IF x[2] >= y[2] THEN x ELSE y
             lo == IF x[2] >= y[2] THEN y ELSE x
             gap == hi[2] - lo[2]
         IN  IF gap > MantissaBits + 1 THEN hi
             ELSE RoundToFloat(hi[1] * Pow2(gap) + lo[1], 1, lo[2])

\* x > k, for an integer k >= 1
FloatExceeds(x, k) ==
    IF x[1] <= 0 THEN FALSE
    ELSE IF x[2] >= 0 THEN x[1] * Pow2(x[2]) > k
    ELSE IF 0 - x[2] >= MantissaBits THEN FALSE
    ELSE x[1] > k * Pow2(0 - x[2])

\* (later - earlier).dt.total_seconds() / 3600: NaN when an end is NaT
FloatHoursBetween(later, earlier) ==
    IF later = {} \/ earlier = {} THEN {}
    ELSE {FloatHours(Val(later) - Val(earlier))}

\* the two df.loc[...] = None lines, on a float
CleanUpFloat(h) ==
    IF h # {} /\ Val(h)[1] < 0 THEN {}
    ELSE IF h # {} /\ FloatExceeds(Val(h), CapHours) THEN {}
    ELSE h

\* hours_total_cycle taken from time_ready_for_review
TotalCycleFromReady(st) ==
    FloatHoursBetween(st.time_merged, st.time_ready_for_review)

\* df['time_merged'] - df['time_claimed'], in hours
TotalCycle(st) == FloatHoursBetween(st.time_merged, st.time_claimed)

\* the three derived columns of one task
FloatDurations(st) ==
    [hours_claimed_to_review |->
         CleanUpFloat(FloatHoursBetween(st.time_ready_for_review,
                                        st.time_claimed)),
     hours_review_to_merged |->
         CleanUpFloat(FloatHoursBetween(st.time_merged,
                                        st.time_ready_for_review)),
     hours_total_cycle |-> CleanUpFloat(TotalCycle(st))]

\* instants in seconds: a few seconds apart, and 400 and 800 hours later
StampSeconds == 0..MaxSeconds \cup {400 * 3600, 800 * 3600}

Stamps == {{}} \cup {{t} : t \in StampSeconds}

DurInit ==
    /\ pc = "durations"
    /\ \E c \in {{}, {0}}, r \in Stamps, m \in Stamps :
          stamps = [time_claimed |-> c, time_ready_for_review |-> r,
                    time_merged |-> m]
    /\ durations = <<>>
    /\ FetchIdle /\ ParseIdle /\ CycleIdle /\ MetricIdle /\ NormIdle
    /\ TimeIdle /\ LogIdle /\ CacheIdle /\ DashIdle

ComputeDurations ==
    /\ pc = "durations"
    /\ durations' = FloatDurations(stamps)
    /\ pc' = "done"
    /\ UNCHANGED <<stamps, fetchVars, parseVars, cycleVars, metricVars,
                   normVars, timeVars, logVars, cacheVars, dashVars>>

DurNext == ComputeDurations

SpecDur == DurInit /\ [][DurNext]_vars

AllThreePresent ==
    /\ durations.hours_claimed_to_review # {}
    /\ durations.hours_review_to_merged # {}
    /\ durations.hours_total_cycle # {}

\* the float sum of the work and the review duration
WorkPlusReview ==
    FloatSum(Val(durations.hours_claimed_to_review),
             Val(durations.hours_review_to_merged))

\* how far two floats >= 0 are apart, in units of the last place of the
\* finer of the two
UnitsApart(x, y) ==
    IF x[1] = 0 \/ y[1] = 0 THEN x[1] + y[1]
    ELSE LET e == IF x[2] <= y[2] THEN x[2] ELSE y[2]
             d == x[1] * Pow2(x[2] - e) - y[1] * Pow2(y[2] - e)
         IN  IF d >= 0 THEN d ELSE 0 - d

\* work and review are present and total is not only when the time from
\* claim to merge is above 720 hours
TotalAbsentOnlyAboveCap ==
    /\ durations.hours_claimed_to_review # {}
    /\ durations.hours_review_to_merged # {}
    /\ durations.hours_total_cycle = {}
    => Val(stamps.time_merged) - Val(stamps.time_claimed) > CapHours * 3600

\* C21, as stated: with all three durations present, the total cycle
\* duration equals the work duration plus the review duration; total may
\* be absent with the other two present (their sum above 720 hours)
C21_TotalIsSum ==
    pc = "done" =>
        /\ AllThreePresent => Val(durations.hours_total_cycle) = WorkPlusReview
        /\ TotalAbsentOnlyAboveCap

\* C21, amended: with all three durations present, the total cycle
\* duration equals the work duration plus the review duration up to the
\* rounding of the floats, one unit in the last place; total may be absent
\* with the other two present (their sum above 720 hours)
C21_TotalIsSumRounded ==
    pc = "done" =>
        /\ AllThreePresent =>
               UnitsApart(Val(durations.hours_total_cycle), WorkPlusReview) <= 1
        /\ TotalAbsentOnlyAboveCap

\* a task claimed at 0 s, ready at 1 s, merged at 3 s: the three durations
\* are present and the total is one unit off the sum of the other two
C21_Witness ==
    /\ pc = "done"
    /\ stamps.time_claimed = {0}
    /\ stamps.time_ready_for_review = {1}
    /\ stamps.time_merged = {3}
    /\ AllThreePresent
    /\ UnitsApart(Val(durations.hours_total_cycle), WorkPlusReview) = 1


---------------------------------------------------------------------------
(* The order of the counts and of the handling times they divide. *)

\* x <= y for two quotients with positive denominators
QuotientLeq(x, y) == x[1] * y[2] <= y[1] * x[2]

\* C22: for every worker tasksMerged <= tasksWritten, globally
\* merged_tasks <= written_tasks <= total_tasks, and whenever a worker's
\* overall AHT is defined the writer AHT is defined too and is at most the
\* overall AHT
C22_MergedWrittenOrder ==
    pc = "done" =>
        /\ overall.merged_tasks <= overall.written_tasks
        /\ overall.written_tasks <= overall.total_tasks
        /\ \A w \in DOMAIN expert_metrics :
              LET m == expert_metrics[w]
              IN  /\ m.tasks_merged <= m.tasks_written
                  /\ m.overall_aht_expert # {} =>
                        /\ m.writer_aht # {}
                        /\ QuotientLeq(Val(m.writer_aht),
                                       Val(m.overall_aht_expert))


---------------------------------------------------------------------------
(* metrics_dashboard.py: the reruns of the page and st.session_state.      *)

\* reruns of the page in one session
MaxReruns == 5
\* steps of the clock, 10 seconds each
MaxDashTicks == 4
\* @st.cache_data(ttl=30)
MetricsTtl == 30

\* 'data' is not a key of st.session_state
NoData == "absent"

\* the values of the text input: left empty, and two URLs
Endpoints == {"", "https://a/metrics", "https://b/metrics"}

\* the values of the two date inputs, as the range they span
DateRanges == {"30 days", "7 days"}

\* what the endpoint does with a request: it serves a JSON object, it
\* serves the JSON value null, or the request fails (no connection,
\* timeout, HTTP error status, a body that is not JSON), which requests
\* raises as a RequestException
ApiOutcomes == {"metrics A", "metrics B", "null", "RequestException"}

\* generate_mock_data(): the fixed metrics and one time-series entry per
\* day from date_from to date_to
generate_mock_data(dates) ==
    IF dates = "30 days" THEN "mock data of 30 days"
    ELSE "mock data of 7 days"

\* the body of fetch_metrics_data: response.json(), or None from the
\* except clause
FetchMetricsBody(outcome) ==
    IF outcome \in {"null", "RequestException"} THEN "None" ELSE outcome

\* the entry stored at entry.stored is still served at time t
MetricsEntryLive(entry, t) == t < entry.stored + MetricsTtl

LiveMetricsEntries(url) ==
    {e \in metrics_cache : e.url = url /\ MetricsEntryLive(e, dash_time)}

\* fetch_metrics_data(url) under st.cache_data: the value returned and the
\* entries held afterwards
fetch_metrics_data(url, outcome) ==
    LET live == LiveMetricsEntries(url)
        value == FetchMetricsBody(outcome)
    IN  IF live # {}
        THEN <<(CHOOSE e \in live : TRUE).value, metrics_cache>>
        ELSE <<value,
               {e \in metrics_cache : e.url # url}
                   \cup {[url |-> url, value |-> value,
                          stored |-> dash_time]}>>

\* every rerun fetches or generates
NeedsDataAlways(button, stored) == TRUE

\* fetch_button or 'data' not in st.session_state
NeedsData(button, stored) == button \/ stored = NoData

\* one run of the script with the widgets at the values given; the
\* endpoint, if asked, answers with outcome. The last line reads
\* st.session_state['data'] back (the key is set by then, so the default
\* of .get is computed and dropped) and the page is drawn from it
RunScript(button, mock, url, dates, outcome) ==
    /\ reruns < MaxReruns
    /\ reruns' = reruns + 1
    /\ data_before' = session_data
    /\ fetch_button' = button /\ use_mock' = mock
    /\ api_endpoint' = url /\ date_range' = dates
    /\ IF NeedsData(button, session_data)
       THEN IF mock \/ url = ""
            THEN /\ session_data' = generate_mock_data(dates)
                 /\ fetched' = "not called"
                 /\ UNCHANGED metrics_cache
            ELSE LET call == fetch_metrics_data(url, outcome)
                 IN  /\ fetched' = call[1]
                     /\ metrics_cache' = call[2]
                     /\ session_data' =
                           IF call[1] = "None"
                           THEN generate_mock_data(dates)
                           ELSE call[1]
       ELSE /\ fetched' = "not called"
            /\ UNCHANGED <<session_data, metrics_cache>>
    /\ pc' = "rendered"
    /\ UNCHANGED <<dash_time, fetchVars, parseVars, cycleVars, metricVars,
                   normVars, timeVars, logVars, cacheVars, durVars>>

DashInit ==
    /\ pc = "dashboard"
    /\ DashIdle
    /\ FetchIdle /\ ParseIdle /\ CycleIdle /\ MetricIdle /\ NormIdle
    /\ TimeIdle /\ LogIdle /\ CacheIdle /\ DurIdle

\* the page is opened: every widget has its default value
FirstRun ==
    /\ pc = "dashboard"
    /\ \E o \in ApiOutcomes : RunScript(FALSE, TRUE, "", "30 days", o)

\* the user presses Refresh Data: the button is True in this rerun only
PressRefresh ==
    /\ pc = "rendered"
    /\ \E o \in ApiOutcomes :
          RunScript(TRUE, use_mock, api_endpoint, date_range, o)

\* the user ticks or unticks Use Mock Data
ToggleMock ==
    /\ pc = "rendered"
    /\ \E o \in ApiOutcomes :
          RunScript(FALSE, ~use_mock, api_endpoint, date_range, o)

\* the user edits the endpoint
EditEndpoint ==
    /\ pc = "rendered"
    /\ \E url \in Endpoints \ {api_endpoint}, o \in ApiOutcomes :
          RunScript(FALSE, use_mock, url, date_range, o)

\* the user picks other dates
EditDates ==
    /\ pc = "rendered"
    /\ \E dates \in DateRanges \ {date_range}, o \in ApiOutcomes :
          RunScript(FALSE, use_mock, api_endpoint, dates, o)

\* the user picks another auto-refresh interval, which the script reads
\* nowhere: a rerun with the other widgets as they were
SelectRefreshRate ==
    /\ pc = "rendered"
    /\ \E o \in ApiOutcomes :
          RunScript(FALSE, use_mock, api_endpoint, date_range, o)

\* time passes, 10 seconds at a time
DashTick ==
    /\ pc = "rendered"
    /\ dash_time < 10 * MaxDashTicks
    /\ dash_time' = dash_time + 10
    /\ UNCHANGED <<pc, session_data, data_before, fetch_button, use_mock,
                   api_endpoint, date_range, fetched, metrics_cache, reruns>>
    /\ UNCHANGED <<fetchVars, parseVars, cycleVars, metricVars, normVars,
                   timeVars, logVars, cacheVars, durVars>>

DashNext ==
    \/ FirstRun
    \/ PressRefresh
    \/ ToggleMock
    \/ EditEndpoint
    \/ EditDates
    \/ SelectRefreshRate
    \/ DashTick

SpecDash == DashInit /\ [][DashNext]_vars

\* the rerun just made had to fetch or generate
Replacing == fetch_button \/ data_before = NoData

====
